---- MODULE Spec2Model ----
(***************************************************************************)
(* Marketing-attribution dashboard (src/app/page.tsx and its themed        *)
(* variants): the synthetic data generator generateRawCSVData and the      *)
(* aggregation engine of the SalesDashboard component (chartData, totals,  *)
(* getGroupedData, DrillDownTable).                                        *)
(*                                                                         *)
(* Numbers.  The source computes with IEEE doubles.  Every rate is a       *)
(* decimal constant, so the model computes the same quantities exactly     *)
(* with integers: a seasonality factor is kept in tenths, a value of       *)
(* Math.random() is k / RandDen with k in 0 .. RandDen-1, and              *)
(* Math.floor(a * b) becomes an integer quotient.  The largest value       *)
(* Math.random() returns, the last double below 1, is the draw LastDraw:   *)
(* there the doubles of the source round to the products of 1 itself,      *)
(* which no k / RandDen reaches.  A timestamp is kept in whole days        *)
(* (getTime() / 86400000); only its order is ever used.                    *)
(*                                                                         *)
(* Dates.  A Date built from '2024-10-25T12:00:00' is local noon; setDate  *)
(* keeps the local wall-clock time, so every currentDate of the generator  *)
(* is local noon of some civil day and is modelled by that day's number    *)
(* (days since 1970-01-01).  getMonth, getDay and toLocaleDateString read  *)
(* the local day; toISOString reads the UTC day, which depends on the      *)
(* runtime's time zone, an input of the environment.                       *)
(***************************************************************************)
EXTENDS Integers, Sequences, FiniteSets, TLC

VARIABLES
    tz,            \* the runtime's time zone (environment)
    rawData,       \* useState<RowData[]>: the record list
    activeMetric,  \* useState<string>: the selected metric
    view,          \* the values the useMemo hooks and the render hold
    currentDate,   \* generator: the day being generated (local civil day number)
    draws,         \* generator: the values Math.random() returns for one row
    row,           \* generator: the row pushed for those draws
    pc,            \* position of the run
    randomSeq,     \* the values Math.random() returns, call after call (environment)
    offset,        \* generator: i, the day offset of the outer loop
    genRows,       \* generator: rows, the list being built
    generatorRuns, \* number of calls of generateRawCSVData so far
    isLoading,     \* useState<boolean>: the loading flag
    timerPending,  \* the setTimeout of the mount effect is scheduled
    designMode,    \* useState: the selected design (page.tsx, part_000)
    variant,       \* the file SalesDashboard is built from (environment)
    mode,          \* useState<ThemeMode>: light or dark (part_001)
    design         \* useState<DesignSystem>: the design system (part_001)

\* The variables of the generator loop, of the theme selection and of the
\* component's life cycle.
genVars == <<randomSeq, offset, genRows, generatorRuns>>
themeVars == <<designMode, variant, mode, design>>
uiVars == <<isLoading, timerPending, themeVars>>

vars == <<tz, rawData, activeMetric, view, currentDate, draws, row, pc,
          genVars, uiVars>>

\* What a theme variable holds in a variant that does not declare it.
NotDeclared == "not declared"

(***************************************************************************)
(* Bounds of the model.                                                    *)
(***************************************************************************)
\* Math.random() takes the values k / 2^RandBits, and the last double
\* below 1.
RandBits == 9
\* Longest record list handed to the aggregation engine.
MaxRows == 3

RandDen == 2 ^ RandBits

\* The draw that stands for the largest value Math.random() returns, the
\* last double below 1 (1 - 2^-52 or 1 - 2^-53, as the engine has it): it
\* is written as the numerator RandDen, and it is not the value 1.
LastDraw == RandDen

(***************************************************************************)
(* Calendar arithmetic of the JavaScript Date object.                      *)
(***************************************************************************)
\* Day number (days since 1970-01-01) of the civil date y-m-d.
DaysFromCivil(y, m, d) ==
    LET yy  == IF m <= 2 THEN y - 1 ELSE y
        era == yy \div 400
        yoe == yy - era * 400
        mp  == IF m > 2 THEN m - 3 ELSE m + 9
        doy == (153 * mp + 2) \div 5 + d - 1
        doe == yoe * 365 + yoe \div 4 - yoe \div 100 + doy
    IN  era * 146097 + doe - 719468

\* Civil date <<y, m, d>> of a day number.
CivilFromDays(z) ==
    LET zz  == z + 719468
        era == zz \div 146097
        doe == zz - era * 146097
        yoe == (doe - doe \div 1460 + doe \div 36524 - doe \div 146096) \div 365
        doy == doe - (365 * yoe + yoe \div 4 - yoe \div 100)
        mp  == (5 * doy + 2) \div 153
        d   == doy - (153 * mp + 2) \div 5 + 1
        m   == IF mp < 10 THEN mp + 3 ELSE mp - 9
        y   == yoe + era * 400 + (IF m <= 2 THEN 1 ELSE 0)
    IN  <<y, m, d>>

\* The time zones the model runs the program in, one for each way the UTC
\* day of local noon sits against the local day: the same day (UTC), the
\* same day on either side of a daylight-time switch (Auckland), the day
\* before (Kiritimati, 14 hours ahead) and the day after (Etc/GMT+12, 12
\* hours behind, where local noon is UTC midnight of the next day).
TimeZones == {"UTC", "Pacific/Auckland", "Pacific/Kiritimati", "Etc/GMT+12"}

\* Hours the local clock of tz is ahead of UTC at local noon of day ld.
\* New Zealand switches to daylight time (+13) on 2024-09-29.
UtcOffsetHours(zone, ld) ==
    CASE zone = "UTC" -> 0
      [] zone = "Pacific/Kiritimati" -> 14
      [] zone = "Etc/GMT+12" -> 0 - 12
      [] zone = "Pacific/Auckland" ->
            IF ld >= DaysFromCivil(2024, 9, 29) THEN 13 ELSE 12

\* new Date('2024-10-25T12:00:00'): local noon of 25 October 2024.
anchorDate == DaysFromCivil(2024, 10, 25)

\* Mutant of setDate: the offset added, i civil days later.
setDate_Forward(date, i) == date + i

\* currentDate.setDate(currentDate.getDate() - i): i civil days earlier,
\* same local time.
setDate(date, i) == date - i

\* currentDate.getMonth(): the local month, 0-based.
getMonth(ld) == CivilFromDays(ld)[2] - 1

\* currentDate.getDay(): the local weekday, 0 = Sunday.
getDay(ld) == (ld + 4) % 7

\* currentDate.toISOString().split('T')[0]: the UTC calendar date of local
\* noon, <<y, m, d>> standing for the string 'yyyy-mm-dd'.
toISODate(zone, ld) ==
    CivilFromDays(ld + ((12 - UtcOffsetHours(zone, ld)) \div 24))

MonthShort ==
    <<"Jan", "Feb", "Mar", "Apr", "May", "Jun",
      "Jul", "Aug", "Sep", "Oct", "Nov", "Dec">>

\* currentDate.toLocaleDateString('en-US', {month: 'short', day: 'numeric'}):
\* <<"Oct", 25>> standing for 'Oct 25', read from the local day.
toLocaleDateString(ld) ==
    LET c == CivilFromDays(ld) IN <<MonthShort[c[2]], c[3]>>

\* new Date(a.date).getTime(), in days: a date-only ISO string is parsed as
\* UTC midnight.
getTime(date) == DaysFromCivil(date[1], date[2], date[3])

(***************************************************************************)
(* RAW DATA SIMULATION                                                     *)
(***************************************************************************)
\* SEASONALITY, in tenths, by 0-based month.
SEASONALITY ==
    [m \in 0..11 |->
        CASE m \in {0, 1}  -> 12
          [] m = 2         -> 11
          [] m = 3         -> 10
          [] m = 4         -> 9
          [] m \in {5, 6}  -> 2
          [] m = 7         -> 11
          [] m = 8         -> 13
          [] m \in {9, 10} -> 14
          [] m = 11        -> 10]

SEGMENTS ==
    [regions       |-> <<"US", "UK", "Ireland">>,
     personas      |-> <<"Talent Acquisition", "HR Director", "Employer Branding">>,
     inboxes       |-> <<"Google Workspace", "Outlook 365", "Azure", "SMTP">>,
     campaigns     |-> <<"Campaign A", "Campaign B", "Campaign C", "Campaign D">>,
     ttlBuckets    |-> <<"< 5 mins", "5-30 mins", "30-60 mins", "1-4 hours", "> 24 hours">>,
     revenueRanges |-> <<"< $1M", "$1M - $10M", "$10M - $50M", "$50M+">>]

\* Mutant of seasonFactor: the summer slump ignored, June and July at 1.0.
seasonFactor_NoSlump(month) ==
    IF month \in {5, 6} THEN 10 ELSE SEASONALITY[month]

\* SEASONALITY[month] || 1.0, in tenths: a missing or zero entry reads 1.0.
seasonFactor(month) ==
    IF month \in DOMAIN SEASONALITY /\ SEASONALITY[month] # 0
    THEN SEASONALITY[month] ELSE 10

\* Mutant of pick: Math.ceil in place of Math.floor; an index past the end
\* of the list reads undefined.
pick_Ceiling(list, k) ==
    LET n == (k * Len(list) + RandDen - 1) \div RandDen
    IN  IF n < Len(list) THEN list[n + 1] ELSE "undefined"

\* list[Math.floor(Math.random() * list.length)] for the draw k / RandDen.
\* JavaScript indexes from 0, a TLA+ sequence from 1.  The last double
\* below 1 times a length of 3, 4 or 5 is a double below the length: the
\* last element.
pick(list, k) ==
    IF k = LastDraw THEN list[Len(list)]
    ELSE list[((k * Len(list)) \div RandDen) + 1]

baseVol == 250

\* Math.floor(baseVol * seasonFactor * noise), noise = 0.85 + random * 0.3.
\* At LastDraw the double noise is 1.15 and the product is that of 1.15
\* (for the factor 1.2 it is 345, which no real number below 1 gives).
emailsSent(sf, k) == (baseVol * sf * (85 * RandDen + 30 * k)) \div (1000 * RandDen)

\* Math.floor(baseVol * seasonFactor)
plannedSent(sf) == (baseVol * sf) \div 10

\* The emails_sent up to 402, the largest a row can have, for which
\* emailsSent * replyRate at LastDraw is a double below the whole number
\* emailsSent / 40: replyRate is then the double 0.024999999999999998, and
\* the product rounds to the whole number for 200, 360 and 400 only
\* (computed in IEEE 754 double arithmetic).
RepliesBelow == {40, 80, 120, 160, 240, 280, 320}

\* Math.floor(emailsSent * replyRate), replyRate = 0.018 + random * 0.007.
replies(sent, k) ==
    IF k = LastDraw /\ sent \in RepliesBelow
    THEN (sent \div 40) - 1
    ELSE (sent * (18 * RandDen + 7 * k)) \div (1000 * RandDen)

\* Mutant of plannedReplies: the rate written as a percentage (2).
plannedReplies_Percent(pSent) == pSent * 2

\* Math.floor(plannedSent * 0.02)
plannedReplies(pSent) == (pSent * 2) \div 100

\* Math.floor(replies * positiveRate), positiveRate = 0.35
positiveReplies(rep) == (rep * 35) \div 100

\* Math.floor(plannedReplies * 0.35)
plannedMQLs(pRep) == (pRep * 35) \div 100

\* Math.floor(positiveReplies * meetingRate), meetingRate = 0.60
meetingsBooked(pos) == (pos * 60) \div 100

\* Mutant of plannedSQLs: the rate 0.06.
plannedSQLs_SixPercent(pMql) == (pMql * 6) \div 100

\* Math.floor(plannedMQLs * 0.60)
plannedSQLs(pMql) == (pMql * 60) \div 100

\* Mutant of bounceRate: the rates written as percentages (3 and 1.2).
bounceRate_Percent(inbox) == IF inbox = "SMTP" THEN 3000 ELSE 1200

\* bounceRate = inbox === 'SMTP' ? 0.03 : 0.012, in thousandths.
bounceRate(inbox) == IF inbox = "SMTP" THEN 30 ELSE 12

\* Math.floor(emailsSent * bounceRate)
bounces(sent, inbox) == (sent * bounceRate(inbox)) \div 1000

\* Math.floor(plannedSent * 0.015)
plannedBounces(pSent) == (pSent * 15) \div 1000

\* meetingsBooked * (revenue === '$50M+' ? 50000 : 15000)
estValue(meetings, revenue) ==
    meetings * (IF revenue = "$50M+" THEN 50000 ELSE 15000)

\* The numerators of the eight Math.random() calls of one row.
DrawNames ==
    {"region", "persona", "inbox", "campaign", "revenue", "ttl", "noise", "rate"}

\* One pass of the inner loop of generateRawCSVData: the row pushed for the
\* day ld in time zone zone when Math.random() returns d.
generateRow(zone, ld, d) ==
    LET sf      == seasonFactor(getMonth(ld))
        inbox   == pick(SEGMENTS.inboxes, d.inbox)
        revenue == pick(SEGMENTS.revenueRanges, d.revenue)
        sent    == emailsSent(sf, d.noise)
        pSent   == plannedSent(sf)
        rep     == replies(sent, d.rate)
        pRep    == plannedReplies(pSent)
        pos     == positiveReplies(rep)
        pMql    == plannedMQLs(pRep)
        meet    == meetingsBooked(pos)
    IN  [date                     |-> toISODate(zone, ld),
         displayDate              |-> toLocaleDateString(ld),
         region                   |-> pick(SEGMENTS.regions, d.region),
         persona                  |-> pick(SEGMENTS.personas, d.persona),
         inbox_provider           |-> inbox,
         campaign_name            |-> pick(SEGMENTS.campaigns, d.campaign),
         ttl_bucket               |-> pick(SEGMENTS.ttlBuckets, d.ttl),
         revenue_range            |-> revenue,
         emails_sent              |-> sent,
         replies                  |-> rep,
         positive_replies         |-> pos,
         meetings_booked          |-> meet,
         bounces                  |-> bounces(sent, inbox),
         estimated_pipeline_value |-> estValue(meet, revenue),
         planned_sent             |-> pSent,
         planned_replies          |-> pRep,
         planned_mqls             |-> pMql,
         planned_sqls             |-> plannedSQLs(pMql),
         planned_bounces          |-> plannedBounces(pSent)]

\* TRUE, once the value of x has been computed: a walk by halves computes
\* the result of its first half before it enters the second, so that the
\* evaluation never nests deeper than the halving.
Evaluated(x) == x = x

\* for (let i = 120; i >= 0; i--): the first day offset of the outer loop.
WindowDays == 120

\* Math.random(), call number n of the run (from 0): the environment's
\* sequence seq of numerators, read cyclically.
random(seq, n) == seq[(n % Len(seq)) + 1]

\* The eight draws of row number r of the run (from 0), in the order the
\* inner loop body calls Math.random().
rowDraws(seq, r) ==
    [region   |-> random(seq, 8 * r),
     persona  |-> random(seq, 8 * r + 1),
     inbox    |-> random(seq, 8 * r + 2),
     campaign |-> random(seq, 8 * r + 3),
     revenue  |-> random(seq, 8 * r + 4),
     ttl      |-> random(seq, 8 * r + 5),
     noise    |-> random(seq, 8 * r + 6),
     rate     |-> random(seq, 8 * r + 7)]

\* currentDate.getDay() === 0 || currentDate.getDay() === 6
isWeekend(ld) == getDay(ld) = 0 \/ getDay(ld) = 6

\* Mutant of numSegments: the two counts exchanged.
numSegments_Exchanged(ld) == IF isWeekend(ld) THEN 12 ELSE 2

\* numSegments = isWeekend ? 2 : 12
numSegments(ld) == IF isWeekend(ld) THEN 2 ELSE 12

\* One pass of the outer loop: the rows pushed for the local day ld, the run
\* having pushed n rows before.
generateDay(zone, ld, seq, n) ==
    [j \in 1..numSegments(ld) |->
        generateRow(zone, ld, rowDraws(seq, n + j - 1))]

\* The passes of the outer loop for i = hi down to lo, pushing onto acc.  The
\* range is walked by halves, larger offsets first, which runs the same
\* passes in the same order and keeps the evaluation shallow.
RECURSIVE outerLoop(_, _, _, _, _, _)
outerLoop(acc, zone, anchor, seq, hi, lo) ==
    IF hi < lo THEN acc
    ELSE IF hi = lo
    THEN acc \o generateDay(zone, setDate(anchor, hi), seq, Len(acc))
    ELSE LET mid   == (hi + lo) \div 2
             first == outerLoop(acc, zone, anchor, seq, hi, mid + 1)
         IN  IF Evaluated(first)
             THEN outerLoop(first, zone, anchor, seq, mid, lo) ELSE first

\* The outer loop for i = w down to 0 from the day anchor: the rows it has
\* pushed when it ends.
generateDays(zone, anchor, w, seq) == outerLoop(<<>>, zone, anchor, seq, w, 0)

\* Mutant of generateRawCSVData: the loop never entered, an empty list.
generateRawCSVData_Empty(zone, seq) == <<>>

\* generateRawCSVData(): the list returned when Math.random() follows seq.
generateRawCSVData(zone, seq) ==
    generateDays(zone, anchorDate, WindowDays, seq)

(***************************************************************************)
(* AGGREGATION ENGINE                                                      *)
(*                                                                         *)
(* A JavaScript object or Map is a sequence of its entries in insertion    *)
(* order, the order Map.values() and Object.entries() enumerate them in    *)
(* (no key of the program is an integer-like string).                      *)
(***************************************************************************)
\* The ten metric fields of AggregatedDay, as chartData initialises them.
MetricFields ==
    {"emails_sent", "planned_sent", "replies", "planned_replies",
     "positive_replies", "planned_mqls", "meetings_booked", "planned_sqls",
     "bounces", "planned_bounces"}

\* The metrics a KPI card selects (the onClick handlers of the StatCards).
SelectableMetrics ==
    {"emails_sent", "replies", "positive_replies", "meetings_booked", "bounces"}

\* The categorical fields the dashboard groups on.
GroupFields == {"inbox_provider", "region", "persona", "campaign_name"}

\* Mutant of insertSorted: index x goes before the indices it ties with.
insertSorted_Unstable(sorted, x, c) ==
    LET pos == Cardinality({k \in 1..Len(sorted) : c[sorted[k], x] < 0})
    IN  SubSeq(sorted, 1, pos) \o <<x>> \o SubSeq(sorted, pos + 1, Len(sorted))

\* Array.prototype.sort, one insertion.  The array is sorted through its
\* indices; c[i, j] is the comparator's result on elements i and j.  Index x
\* comes after every index of the sorted prefix that the comparator does not
\* put behind it (the sort is stable, ECMAScript 2019).
insertSorted(sorted, x, c) ==
    LET pos == Cardinality({k \in 1..Len(sorted) : c[sorted[k], x] <= 0})
    IN  SubSeq(sorted, 1, pos) \o <<x>> \o SubSeq(sorted, pos + 1, Len(sorted))

\* The insertions of the indices lo..hi into sorted, in order, walked by
\* halves.
RECURSIVE insertRange(_, _, _, _)
insertRange(sorted, c, lo, hi) ==
    IF lo > hi THEN sorted
    ELSE IF lo = hi THEN insertSorted(sorted, lo, c)
    ELSE LET mid  == (lo + hi) \div 2
             left == insertRange(sorted, c, lo, mid)
         IN  IF Evaluated(left)
             THEN insertRange(left, c, mid + 1, hi) ELSE left

\* Array.prototype.sort(cmp), with c[i, j] = cmp(seq[i], seq[j]).
arraySort(seq, c) ==
    LET order == insertRange(<<>>, c, 1, Len(seq))
    IN  [k \in 1..Len(seq) |-> seq[order[k]]]

\* Mutant of dayCompare: the operands of the subtraction exchanged.
dayCompare_Descending(a, b) == getTime(b.date) - getTime(a.date)

\* (a, b) => new Date(a.date).getTime() - new Date(b.date).getTime()
dayCompare(a, b) == getTime(a.date) - getTime(b.date)

\* (a, b) => b.value - a.value
entryCompare(a, b) == b.value - a.value

\* dateMap.set(row.date, {date, displayDate, emails_sent: 0, ...})
newDay(r) ==
    [date             |-> r.date,
     displayDate      |-> r.displayDate,
     emails_sent      |-> 0, planned_sent    |-> 0,
     replies          |-> 0, planned_replies |-> 0,
     positive_replies |-> 0, planned_mqls    |-> 0,
     meetings_booked  |-> 0, planned_sqls    |-> 0,
     bounces          |-> 0, planned_bounces |-> 0]

\* Mutant of addRow: day.field = row.field, an assignment in place of +=.
addRow_Overwrite(day, r) ==
    [f \in DOMAIN day |-> IF f \in MetricFields THEN r[f] ELSE day[f]]

\* day.emails_sent += row.emails_sent; ... for the ten metric fields.
addRow(day, r) ==
    [f \in DOMAIN day |-> IF f \in MetricFields THEN day[f] + r[f] ELSE day[f]]

\* The body of rawData.forEach in chartData: create the day of row.date if
\* the map has none, then add the row to it.
dateMapStep(dateMap, r) ==
    LET has == \E i \in 1..Len(dateMap) : dateMap[i].date = r.date
        m1  == IF has THEN dateMap ELSE Append(dateMap, newDay(r))
    IN  [i \in 1..Len(m1) |->
            IF m1[i].date = r.date THEN addRow(m1[i], r) ELSE m1[i]]

\* rawData.forEach(row => {...}) of chartData over rows[lo..hi], starting
\* from dateMap.  The range is walked by halves, first half first, which
\* applies the same steps in the same order and keeps the evaluation of a
\* long list shallow.
RECURSIVE dateMapFold(_, _, _, _)
dateMapFold(dateMap, rows, lo, hi) ==
    IF lo > hi THEN dateMap
    ELSE IF lo = hi THEN dateMapStep(dateMap, rows[lo])
    ELSE LET mid  == (lo + hi) \div 2
             left == dateMapFold(dateMap, rows, lo, mid)
         IN  IF Evaluated(left)
             THEN dateMapFold(left, rows, mid + 1, hi) ELSE left

\* const chartData = useMemo(() => {...}, [rawData])
ChartData(rows) ==
    IF Len(rows) = 0 THEN <<>>
    ELSE LET days == dateMapFold(<<>>, rows, 1, Len(rows))
         IN  arraySort(days, [i, j \in 1..Len(days) |->
                                 dayCompare(days[i], days[j])])

\* The initial accumulator of the totals fold: {} as Partial<AggregatedDay>.
EmptyObject == [f \in {} |-> 0]

\* (acc.field || 0): a missing field reads undefined, which || replaces by 0.
orZero(acc, f) == IF f \in DOMAIN acc /\ acc[f] # 0 THEN acc[f] ELSE 0

\* The reducer of totals: a fresh object with the ten running sums.
totalsStep(acc, r) == [f \in MetricFields |-> orZero(acc, f) + r[f]]

\* rawData.reduce(reducer, acc) over rows[lo..hi], walked by halves in order.
RECURSIVE totalsFold(_, _, _, _)
totalsFold(acc, rows, lo, hi) ==
    IF lo > hi THEN acc
    ELSE IF lo = hi THEN totalsStep(acc, rows[lo])
    ELSE LET mid  == (lo + hi) \div 2
             left == totalsFold(acc, rows, lo, mid)
         IN  IF Evaluated(left)
             THEN totalsFold(left, rows, mid + 1, hi) ELSE left

\* const totals = useMemo(() => rawData.reduce(..., {}), [rawData])
Totals(rows) == totalsFold(EmptyObject, rows, 1, Len(rows))

\* Mutant of groupsStep: groups[key] = value, the running sum dropped.
groupsStep_Overwrite(groups, key, value) ==
    IF \E i \in 1..Len(groups) : groups[i].name = key
    THEN [i \in 1..Len(groups) |->
            IF groups[i].name = key
            THEN [name |-> key, value |-> value]
            ELSE groups[i]]
    ELSE Append(groups, [name |-> key, value |-> value])

\* groups[key] = (groups[key] || 0) + value, on the entry list of groups.
groupsStep(groups, key, value) ==
    IF \E i \in 1..Len(groups) : groups[i].name = key
    THEN [i \in 1..Len(groups) |->
            IF groups[i].name = key
            THEN [name |-> key, value |-> groups[i].value + value]
            ELSE groups[i]]
    ELSE Append(groups, [name |-> key, value |-> value])

\* The domain list of SEGMENTS a categorical field is drawn from.
segmentsOf(field) ==
    CASE field = "region"         -> SEGMENTS.regions
      [] field = "persona"        -> SEGMENTS.personas
      [] field = "inbox_provider" -> SEGMENTS.inboxes
      [] field = "campaign_name"  -> SEGMENTS.campaigns
      [] field = "ttl_bucket"     -> SEGMENTS.ttlBuckets
      [] field = "revenue_range"  -> SEGMENTS.revenueRanges

\* rawData.forEach(row => {...}) of getGroupedData over rows[lo..hi], walked
\* by halves in order: g.groups is the object groups as its entry list,
\* g.total the running total.
RECURSIVE groupsFold(_, _, _, _, _, _)
groupsFold(g, rows, metric, field, lo, hi) ==
    IF lo > hi THEN g
    ELSE IF lo = hi
    THEN [groups |-> groupsStep(g.groups, rows[lo][field], rows[lo][metric]),
          total  |-> g.total + rows[lo][metric]]
    ELSE LET mid  == (lo + hi) \div 2
             left == groupsFold(g, rows, metric, field, lo, mid)
         IN  IF Evaluated(left)
             THEN groupsFold(left, rows, metric, field, mid + 1, hi) ELSE left

\* Mutant of getGroupedData: groups seeded with every value of the field's
\* domain at 0, the way ttlConfig seeds its counts.
getGroupedData_Seeded(rows, metric, field) ==
    LET seed == [i \in 1..Len(segmentsOf(field)) |->
                    [name |-> segmentsOf(field)[i], value |-> 0]]
        g == groupsFold([groups |-> seed, total |-> 0],
                        rows, metric, field, 1, Len(rows))
        entries == g.groups
    IN  [data  |-> arraySort(entries, [i, j \in 1..Len(entries) |->
                                          entryCompare(entries[i], entries[j])]),
         total |-> g.total]

\* getGroupedData(field), reading rawData and activeMetric of the render.
getGroupedData(rows, metric, field) ==
    LET g == groupsFold([groups |-> <<>>, total |-> 0],
                        rows, metric, field, 1, Len(rows))
        entries == g.groups
    IN  [data  |-> arraySort(entries, [i, j \in 1..Len(entries) |->
                                          entryCompare(entries[i], entries[j])]),
         total |-> g.total]

\* The ties of toFixed(1) that print one tenth less.  When 1000 * value /
\* total ends in exactly one half, value / total is m / 2000 for an odd m,
\* and the source rounds the double (m / 2000) * 100, which depends on m
\* alone: it is below the tie m / 20 for the m listed here (575: 28.75 is
\* held as 28.749999999999996 and printed '28.7') and at or above it for
\* every other odd m below 2000 (computed in IEEE 754 double arithmetic).
TiesBelow ==
    {3, 9, 11, 19, 23, 37, 39, 43, 51, 53, 59, 61, 63, 71, 73, 81, 87, 91,
     103, 107, 111, 119, 121, 127, 141, 143, 145, 147, 149, 151, 153, 157,
     167, 173, 177, 179, 181, 187, 189, 197, 207, 209, 211, 217, 219, 227,
     237, 239, 241, 247, 249, 257, 283, 285, 287, 289, 291, 293, 297, 299,
     301, 307, 309, 317, 329, 347, 349, 351, 353, 357, 359, 363, 369, 373,
     379, 383, 389, 407, 409, 411, 413, 417, 419, 423, 427, 429, 433, 439,
     443, 449, 459, 469, 471, 473, 477, 479, 483, 487, 489, 493, 499, 503,
     509, 519, 563, 565, 567, 569, 571, 573, 575, 577, 579, 581, 583, 587,
     589, 591, 593, 597, 599, 601, 603, 607, 609, 613, 619, 623, 629, 633,
     639, 641, 643, 653, 663, 689, 691, 693, 697, 699, 701, 703, 709, 711,
     713, 719, 721, 723, 729, 731, 733, 741, 743, 751, 753, 761, 763, 773,
     783, 793, 813, 817, 819, 821, 823, 827, 829, 831, 833, 839, 841, 843,
     849, 851, 853, 861, 863, 871, 873, 881, 883, 891, 893, 903, 913, 939,
     941, 943, 947, 949, 951, 953, 959, 961, 963, 969, 971, 973, 979, 981,
     983, 991, 993, 1001, 1003, 1005, 1007, 1009, 1011, 1013, 1015, 1017,
     1019, 1021, 1023, 1025, 1027, 1029, 1031, 1033, 1035, 1037, 1039,
     1041, 1043, 1047, 1049, 1051, 1053, 1057, 1059, 1061, 1063, 1067,
     1069, 1071, 1073, 1077, 1079, 1081, 1083, 1089, 1091, 1093, 1099,
     1101, 1103, 1111, 1113, 1121, 1123, 1131, 1133, 1141, 1143, 1153,
     1163, 1251, 1253, 1255, 1257, 1259, 1261, 1263, 1265, 1267, 1269,
     1271, 1273, 1275, 1277, 1279, 1281, 1283, 1287, 1291, 1293, 1297,
     1301, 1303, 1307, 1311, 1313, 1317, 1321, 1323, 1327, 1331, 1333,
     1337, 1341, 1347, 1351, 1357, 1361, 1367, 1371, 1377, 1381, 1387,
     1391, 1397, 1401, 1407, 1411, 1421, 1431, 1441, 1451, 1461, 1501,
     1503, 1507, 1509, 1511, 1513, 1517, 1519, 1521, 1523, 1527, 1529,
     1531, 1533, 1537, 1541, 1543, 1547, 1551, 1553, 1557, 1561, 1563,
     1567, 1571, 1573, 1577, 1581, 1583, 1587, 1591, 1597, 1601, 1607,
     1611, 1617, 1621, 1627, 1631, 1637, 1641, 1647, 1651, 1657, 1661,
     1671, 1681, 1691, 1701, 1711, 1751, 1753, 1757, 1759, 1761, 1763,
     1767, 1769, 1771, 1773, 1777, 1779, 1781, 1783, 1787, 1791, 1793,
     1797, 1801, 1803, 1807, 1811, 1813, 1817, 1821, 1823, 1827, 1831,
     1833, 1837, 1841, 1847, 1851, 1857, 1861, 1867, 1871, 1877, 1881,
     1887, 1891, 1897, 1901, 1907, 1911, 1921, 1931, 1941, 1951, 1961}

\* Mutant of sharePct: a zero total shown as a full share.
sharePct_FullWhenEmpty(value, total) ==
    IF total > 0
    THEN LET twice == (2000 * value) \div total
             tie   == (2000 * value) % total = 0 /\ twice % 2 = 1
         IN  IF tie /\ twice \in TiesBelow
             THEN (twice - 1) \div 2 ELSE (twice + 1) \div 2
    ELSE 1000

\* ((item.value / total) * 100).toFixed(1), or 0 when total is 0, in tenths
\* of a percent ('33.3' is 333).  toFixed rounds the double to the nearest
\* tenth, a tie upwards; twice is the whole part of 2000 * value / total.
sharePct(value, total) ==
    IF total > 0
    THEN LET twice == (2000 * value) \div total
             tie   == (2000 * value) % total = 0 /\ twice % 2 = 1
         IN  IF tie /\ twice \in TiesBelow
             THEN (twice - 1) \div 2 ELSE (twice + 1) \div 2
    ELSE 0

\* width: `${total > 0 ? (item.value / total) * 100 : 0}%`, as the fraction
\* <<numerator, denominator>> of a percent.
barWidth(value, total) ==
    IF total > 0 THEN <<value * 100, total>> ELSE <<0, 1>>

\* DrillDownTable: the lines it renders for data and total.
DrillDownTable(data, total) ==
    [i \in 1..Len(data) |->
        [name  |-> data[i].name,
         value |-> data[i].value,
         pct   |-> sharePct(data[i].value, total),
         width |-> barWidth(data[i].value, total)]]

\* The four breakdowns and their tables, recomputed when rawData or
\* activeMetric changes.
Breakdowns(rows, metric) ==
    [f \in GroupFields |-> getGroupedData(rows, metric, f)]

Tables(stats) ==
    [f \in GroupFields |-> DrillDownTable(stats[f].data, stats[f].total)]

\* Mutant of getChartConfig: the planned series chosen the way chartMax
\* chooses it.
getChartConfig_SentFallback(metric) ==
    [actual  |-> metric,
     planned |-> IF metric = "positive_replies" THEN "planned_mqls"
                 ELSE IF metric = "meetings_booked" THEN "planned_sqls"
                 ELSE "planned_sent"]

\* getChartConfig(): the switch on activeMetric, with the series keys it
\* returns (color and label are presentation).
getChartConfig(metric) ==
    CASE metric = "emails_sent" ->
            [actual |-> "emails_sent", planned |-> "planned_sent"]
      [] metric = "replies" ->
            [actual |-> "replies", planned |-> "planned_replies"]
      [] metric = "positive_replies" ->
            [actual |-> "positive_replies", planned |-> "planned_mqls"]
      [] metric = "meetings_booked" ->
            [actual |-> "meetings_booked", planned |-> "planned_sqls"]
      [] metric = "bounces" ->
            [actual |-> "bounces", planned |-> "planned_bounces"]
      [] OTHER ->
            [actual |-> "emails_sent", planned |-> "planned_sent"]

\* activeMetric.split('_')[0], for the metrics a KPI card selects.
firstWord(metric) ==
    CASE metric = "emails_sent"      -> "emails"
      [] metric = "replies"          -> "replies"
      [] metric = "positive_replies" -> "positive"
      [] metric = "meetings_booked"  -> "meetings"
      [] metric = "bounces"          -> "bounces"

\* The planned key chartMax builds for itself:
\* `planned_${first word is 'positive' ? 'mqls'
\*            : activeMetric === 'meetings_booked' ? 'sqls' : 'sent'}`
chartMaxPlanned(metric) ==
    IF firstWord(metric) = "positive" THEN "planned_mqls"
    ELSE IF metric = "meetings_booked" THEN "planned_sqls"
    ELSE "planned_sent"

\* Math.max(...values) of a non-empty set of numbers.
mathMax(values) == CHOOSE v \in values : \A w \in values : w <= v

\* const chartMax = useMemo(() => {...}, [chartData, activeMetric]), in
\* tenths (the factor 1.1 is 11 tenths): 0 for an empty series, else 1.1
\* times the largest of d[activeMetric] and d[config.planned] over the days.
chartMax(days, metric) ==
    IF Len(days) = 0 THEN 0
    ELSE 11 * mathMax({mathMax({days[k][metric],
                                days[k][chartMaxPlanned(metric)]}) :
                          k \in 1..Len(days)})

\* The body of rawData.forEach in ttlConfig: a positive value of the metric
\* is added to the count of the row's bucket, counts being the entry list
\* of the object.
ttlStep(counts, r, metric) ==
    IF r[metric] > 0
    THEN groupsStep(counts, r.ttl_bucket, r[metric]) ELSE counts

\* rawData.forEach(row => {...}) of ttlConfig over rows[lo..hi], walked by
\* halves in order.
RECURSIVE ttlFold(_, _, _, _, _)
ttlFold(counts, rows, metric, lo, hi) ==
    IF lo > hi THEN counts
    ELSE IF lo = hi THEN ttlStep(counts, rows[lo], metric)
    ELSE LET mid  == (lo + hi) \div 2
             left == ttlFold(counts, rows, metric, lo, mid)
         IN  IF Evaluated(left)
             THEN ttlFold(left, rows, metric, mid + 1, hi) ELSE left

\* labels[activeMetric] || 'Metric'
ttlLabel(metric) ==
    CASE metric = "emails_sent"      -> "Emails Sent"
      [] metric = "replies"          -> "Total Replies"
      [] metric = "positive_replies" -> "MQLs"
      [] metric = "meetings_booked"  -> "SQLs"
      [] metric = "bounces"          -> "Bounces"
      [] OTHER                       -> "Metric"

\* Mutant of ttlConfig: counts starts empty, the buckets are not seeded.
ttlConfig_Unseeded(rows, metric) ==
    [data  |-> ttlFold(<<>>, rows, metric, 1, Len(rows)),
     label |-> ttlLabel(metric)]

\* const ttlConfig = useMemo(() => {...}, [rawData, activeMetric]): counts
\* is seeded with every bucket of SEGMENTS.ttlBuckets at 0, and
\* Object.entries lists it in that order.
ttlConfig(rows, metric) ==
    LET seed == [k \in 1..Len(SEGMENTS.ttlBuckets) |->
                    [name |-> SEGMENTS.ttlBuckets[k], value |-> 0]]
    IN  [data  |-> ttlFold(seed, rows, metric, 1, Len(rows)),
         label |-> ttlLabel(metric)]

\* Mutant of Render: the breakdowns memoised on rawData alone, activeMetric
\* missing from their dependencies.
Render_MetricNotADependency(prev, rows, metric, rowsChanged, metricChanged) ==
    LET stats == IF rowsChanged
                 THEN Breakdowns(rows, metric) ELSE prev.stats
        days  == IF rowsChanged THEN ChartData(rows) ELSE prev.chartData
    IN  [rendered  |-> TRUE,
         chartData |-> days,
         chartMax  |-> IF rowsChanged \/ metricChanged
                       THEN chartMax(days, metric) ELSE prev.chartMax,
         config    |-> getChartConfig(metric),
         totals    |-> IF rowsChanged THEN Totals(rows) ELSE prev.totals,
         stats     |-> stats,
         ttlConfig |-> IF rowsChanged \/ metricChanged
                       THEN ttlConfig(rows, metric) ELSE prev.ttlConfig,
         tables    |-> Tables(stats)]

\* One render of SalesDashboard with the hooks' dependencies changed as
\* told: a useMemo whose dependencies are unchanged keeps its value.
Render(prev, rows, metric, rowsChanged, metricChanged) ==
    LET stats == IF rowsChanged \/ metricChanged
                 THEN Breakdowns(rows, metric) ELSE prev.stats
        days  == IF rowsChanged THEN ChartData(rows) ELSE prev.chartData
    IN  [rendered  |-> TRUE,
         chartData |-> days,
         chartMax  |-> IF rowsChanged \/ metricChanged
                       THEN chartMax(days, metric) ELSE prev.chartMax,
         config    |-> getChartConfig(metric),
         totals    |-> IF rowsChanged THEN Totals(rows) ELSE prev.totals,
         stats     |-> stats,
         ttlConfig |-> IF rowsChanged \/ metricChanged
                       THEN ttlConfig(rows, metric) ELSE prev.ttlConfig,
         tables    |-> Tables(stats)]

(***************************************************************************)
(* The row generator as a state machine: the environment supplies the day  *)
(* and the eight random draws, the inner loop body pushes one row.         *)
(***************************************************************************)
\* The values of Math.random(): k / RandDen for k below RandDen, and
\* LastDraw.
Draws == 0 .. LastDraw

\* The smallest and the largest draw, which select the first and the last
\* element of a list.
ExtremeDraws == {0, LastDraw}

\* For a list of n elements, the least draw that selects each element, and
\* the two largest draws.
ElementDraws(n) ==
    {(i * RandDen + n - 1) \div n : i \in 0 .. n - 1}
        \cup {RandDen - 1, LastDraw}

\* Draws a quarter apart, and the two largest.
CoarseDraws ==
    {(i * RandDen) \div 4 : i \in 0 .. 3} \cup {RandDen - 1, LastDraw}

\* Draw vectors that select every element of every categorical domain, in
\* every combination.
CategoryVectors ==
    [region : ElementDraws(Len(SEGMENTS.regions)),
     persona : ElementDraws(Len(SEGMENTS.personas)),
     inbox : ElementDraws(Len(SEGMENTS.inboxes)),
     campaign : ElementDraws(Len(SEGMENTS.campaigns)),
     revenue : ElementDraws(Len(SEGMENTS.revenueRanges)),
     ttl : ElementDraws(Len(SEGMENTS.ttlBuckets)),
     noise : {0}, rate : {0}]

\* Draw vectors that vary the volume: every value of the noise draw with
\* reply rates a quarter apart, every value of the reply-rate draw with
\* noise a quarter apart, and the two inboxes and revenue ranges the
\* numbers depend on (SMTP or not, '$50M+' or not).
VolumeVectors ==
    [region : {0}, persona : {0}, inbox : ExtremeDraws, campaign : {0},
     revenue : ExtremeDraws, ttl : {0}, noise : Draws, rate : CoarseDraws]
    \cup
    [region : {0}, persona : {0}, inbox : ExtremeDraws, campaign : {0},
     revenue : ExtremeDraws, ttl : {0}, noise : CoarseDraws, rate : Draws]

\* Draw vectors whose eight draws are the same value, for every value: each
\* categorical domain is indexed with every draw.
DiagonalVectors == {[n \in DrawNames |-> k] : k \in Draws}

DrawVectors == CategoryVectors \cup VolumeVectors \cup DiagonalVectors

ZeroDraws == [n \in DrawNames |-> 0]

\* The 15th of every month of 2024: one day for each entry of SEASONALITY.
SampleDays == {DaysFromCivil(2024, m, 15) : m \in 1..12}

NoRow == [date |-> <<0, 0, 0>>]

\* What the hooks hold before the first render.
NoView == [rendered |-> FALSE]

RowInit ==
    /\ tz = "UTC"
    /\ \/ currentDate \in SampleDays /\ draws \in VolumeVectors
       \/ currentDate = anchorDate
          /\ draws \in CategoryVectors \cup DiagonalVectors
    /\ row = NoRow
    /\ pc = "drawn"
    /\ rawData = <<>>
    /\ activeMetric = "meetings_booked"
    /\ view = NoView
    /\ randomSeq = <<>>
    /\ offset = 0
    /\ genRows = <<>>
    /\ generatorRuns = 0
    /\ isLoading = TRUE
    /\ timerPending = FALSE
    /\ designMode = "ruadhan"
    /\ variant = "part_000"
    /\ mode = NotDeclared
    /\ design = NotDeclared

\* rows.push({...}) for the draws of this pass.
GenerateRow ==
    /\ pc = "drawn"
    /\ row' = generateRow(tz, currentDate, draws)
    /\ pc' = "pushed"
    /\ UNCHANGED <<tz, rawData, activeMetric, view, currentDate, draws>>
    /\ UNCHANGED <<genVars, uiVars>>

RowNext == GenerateRow

SpecRow == RowInit /\ [][RowNext]_vars

(***************************************************************************)
(* Properties of the generated row.                                        *)
(***************************************************************************)
\* C9: every generated record satisfies 0 <= bounces <= emails_sent,
\* 0 <= positive_replies <= replies <= emails_sent and
\* 0 <= meetings_booked <= positive_replies, for every month's seasonality
\* factor and every value of the random draws.
C9_ActualFunnelChain ==
    pc = "pushed" =>
        /\ 0 <= row.bounces /\ row.bounces <= row.emails_sent
        /\ 0 <= row.positive_replies
        /\ row.positive_replies <= row.replies
        /\ row.replies <= row.emails_sent
        /\ 0 <= row.meetings_booked
        /\ row.meetings_booked <= row.positive_replies

\* A pushed row whose funnel is non-trivial at every stage, from an SMTP inbox.
C9_Witness ==
    /\ pc = "pushed"
    /\ row.inbox_provider = "SMTP"
    /\ row.meetings_booked >= 1
    /\ row.meetings_booked < row.positive_replies
    /\ row.positive_replies < row.replies
    /\ row.bounces >= 1

\* C10: every generated record satisfies the planned chain
\* 0 <= planned_sqls <= planned_mqls <= planned_replies <= planned_sent and
\* 0 <= planned_bounces <= planned_sent, for every month's seasonality factor.
C10_PlannedFunnelChain ==
    pc = "pushed" =>
        /\ 0 <= row.planned_sqls
        /\ row.planned_sqls <= row.planned_mqls
        /\ row.planned_mqls <= row.planned_replies
        /\ row.planned_replies <= row.planned_sent
        /\ 0 <= row.planned_bounces
        /\ row.planned_bounces <= row.planned_sent

\* A pushed row whose planned funnel is non-zero down to planned_sqls.
C10_Witness ==
    /\ pc = "pushed"
    /\ row.planned_sqls >= 1
    /\ row.planned_sqls < row.planned_mqls
    /\ row.planned_bounces >= 1

\* C25: for every random draw each categorical field of a generated record
\* is a member of its fixed domain (3 regions, 3 personas, 4 inbox
\* providers, 4 campaigns, 5 response-time buckets, 4 revenue ranges): the
\* sampled index is never out of range and no field is undefined.
C25_CategoriesInDomain ==
    LET regions   == {"US", "UK", "Ireland"}
        personas  == {"Talent Acquisition", "HR Director", "Employer Branding"}
        inboxes   == {"Google Workspace", "Outlook 365", "Azure", "SMTP"}
        campaigns == {"Campaign A", "Campaign B", "Campaign C", "Campaign D"}
        buckets   == {"< 5 mins", "5-30 mins", "30-60 mins", "1-4 hours",
                      "> 24 hours"}
        revenues  == {"< $1M", "$1M - $10M", "$10M - $50M", "$50M+"}
    IN  pc = "pushed" =>
            /\ row.region \in regions
            /\ row.persona \in personas
            /\ row.inbox_provider \in inboxes
            /\ row.campaign_name \in campaigns
            /\ row.ttl_bucket \in buckets
            /\ row.revenue_range \in revenues

\* A pushed row drawn with the largest values: the last element of every
\* domain.
C25_Witness ==
    /\ pc = "pushed"
    /\ row.region = "Ireland"
    /\ row.persona = "Employer Branding"
    /\ row.inbox_provider = "SMTP"
    /\ row.campaign_name = "Campaign D"
    /\ row.ttl_bucket = "> 24 hours"
    /\ draws.ttl = LastDraw
    /\ row.revenue_range = "$50M+"

(***************************************************************************)
(* The aggregation engine as a state machine: the environment supplies a   *)
(* record list, the component renders it, and a click on a KPI card        *)
(* selects another metric and renders again.                               *)
(***************************************************************************)
\* Day offsets of the rows offered to the engine: 27 and 26 September and
\* 27 June 2024 (local days).
PoolOffsets == {26, 27, 120}

\* Draw vectors of the rows offered: every draw smallest, middle, largest.
PoolDraws ==
    {[n \in DrawNames |-> k] : k \in {0, RandDen \div 2, LastDraw}}

\* Rows the generator pushes in time zone zone.
RowPool(zone) ==
    {generateRow(zone, setDate(anchorDate, i), d) :
        i \in PoolOffsets, d \in PoolDraws}

\* Record lists of at most MaxRows rows, in any order.
RecordLists(zone) ==
    UNION {[1..n -> RowPool(zone)] : n \in 0..MaxRows}

AggZones == {"UTC", "Pacific/Auckland"}

AggInit ==
    /\ tz \in AggZones
    /\ rawData \in RecordLists(tz)
    /\ activeMetric = "meetings_booked"
    /\ view = NoView
    /\ pc = "mounted"
    /\ currentDate = anchorDate
    /\ draws = ZeroDraws
    /\ row = NoRow
    /\ randomSeq = <<>>
    /\ offset = 0
    /\ genRows = <<>>
    /\ generatorRuns = 0
    /\ isLoading = FALSE
    /\ timerPending = FALSE
    /\ designMode = "ruadhan"
    /\ variant = "part_000"
    /\ mode = NotDeclared
    /\ design = NotDeclared

\* The render that follows setRawData(data).
RenderData ==
    /\ pc = "mounted"
    /\ view' = Render(view, rawData, activeMetric, TRUE, TRUE)
    /\ pc' = "rendered"
    /\ UNCHANGED <<tz, rawData, activeMetric, currentDate, draws, row>>
    /\ UNCHANGED <<genVars, uiVars>>

\* onClick={() => setActiveMetric(m)} and the render it causes.
SetActiveMetric(m) ==
    /\ pc = "rendered"
    /\ ~isLoading
    /\ activeMetric' = m
    /\ view' = Render(view, rawData, m, FALSE, m # activeMetric)
    /\ UNCHANGED <<tz, rawData, currentDate, draws, row, pc>>
    /\ UNCHANGED <<genVars, uiVars>>

AggNext ==
    \/ RenderData
    \/ \E m \in SelectableMetrics : SetActiveMetric(m)

SpecAgg == AggInit /\ [][AggNext]_vars

(***************************************************************************)
(* Properties of the aggregation engine.                                   *)
(***************************************************************************)
\* The sum of field f over the elements of seq.
SumField(seq, f) ==
    LET s[n \in 0..Len(seq)] == IF n = 0 THEN 0 ELSE s[n - 1] + seq[n][f]
    IN  s[Len(seq)]

\* The rows of rows dated date.
RowsOn(rows, date) == SelectSeq(rows, LAMBDA r : r.date = date)

DatesOf(seq) == {seq[i].date : i \in 1..Len(seq)}

\* Calendar order of two 'yyyy-mm-dd' dates.
DateBefore(a, b) ==
    \/ a[1] < b[1]
    \/ a[1] = b[1] /\ a[2] < b[2]
    \/ a[1] = b[1] /\ a[2] = b[2] /\ a[3] < b[3]

\* rows reordered by the permutation p of its indices.
Reordered(rows, p) == [i \in 1..Len(rows) |-> rows[p[i]]]

\* C1: chartData holds exactly one Aggregated Day per distinct date of the
\* record list, and each of its ten metric fields is the sum of that field
\* over the records of that date, whatever their segments.
C1_OneDayPerDateWithSums ==
    view.rendered =>
        LET cd == view.chartData
        IN  /\ DatesOf(cd) = DatesOf(rawData)
            /\ Len(cd) = Cardinality(DatesOf(rawData))
            /\ \A i \in 1..Len(cd) : \A f \in MetricFields :
                   cd[i][f] = SumField(RowsOn(rawData, cd[i].date), f)

\* Two records of one date with different segments and non-zero metrics,
\* and a record of another date.
C1_Witness ==
    /\ view.rendered
    /\ Len(view.chartData) >= 2
    /\ \E i, j \in 1..Len(rawData) :
          /\ i < j
          /\ rawData[i].date = rawData[j].date
          /\ rawData[i].region # rawData[j].region
          /\ rawData[i].meetings_booked > 0
          /\ rawData[j].meetings_booked > 0

\* C2: for each of the ten metric fields the grand total of the totals fold
\* equals the sum of that field over the Aggregated Days of chartData.
C2_TotalsEqualDaySums ==
    view.rendered =>
        \A f \in MetricFields :
            /\ f \in DOMAIN view.totals
            /\ view.totals[f] = SumField(view.chartData, f)

\* C3: for an empty record list every one of the ten grand totals is 0.
C3_EmptyListZeroTotals ==
    (view.rendered /\ rawData = <<>>) =>
        \A f \in MetricFields :
            /\ f \in DOMAIN view.totals
            /\ view.totals[f] = 0

\* C4: for an empty record list the day series is empty and each of the four
\* breakdowns has no entry and total 0 (every operation returns a value).
C4_EmptyListEmptyViews ==
    (view.rendered /\ rawData = <<>>) =>
        /\ view.chartData = <<>>
        /\ \A f \in GroupFields :
              /\ view.stats[f].data = <<>>
              /\ view.stats[f].total = 0
              /\ view.tables[f] = <<>>

\* The empty list rendered, after a click selected another metric.
C4_Witness ==
    /\ view.rendered
    /\ rawData = <<>>
    /\ activeMetric = "bounces"

\* C5: the Aggregated Day series is strictly ascending by date, with no date
\* twice, for a record list in any order.
C5_DaysStrictlyAscending ==
    view.rendered =>
        \A i, j \in 1..Len(view.chartData) :
            i < j => DateBefore(view.chartData[i].date, view.chartData[j].date)

\* A list given latest date first, with one date twice.
C5_Witness ==
    /\ view.rendered
    /\ Len(rawData) >= 3
    /\ DateBefore(rawData[3].date, rawData[1].date)
    /\ rawData[1].date = rawData[2].date
    /\ Len(view.chartData) = 2

\* C6: the day series (dates, display labels and the ten sums, in order) is
\* the same for every reordering of the record list.
C6_OrderIndependent ==
    view.rendered =>
        \A p \in Permutations(1..Len(rawData)) :
            ChartData(Reordered(rawData, p)) = view.chartData

\* C7: for every categorical field and selectable metric the values of the
\* entries getGroupedData returns sum to the total it returns.
C7_EntriesSumToTotal ==
    view.rendered =>
        /\ \A f \in GroupFields :
              SumField(view.stats[f].data, "value") = view.stats[f].total
        /\ \A f \in {"ttl_bucket", "revenue_range"} :
              \A m \in SelectableMetrics :
                  LET g == getGroupedData(rawData, m, f)
                  IN  SumField(g.data, "value") = g.total

\* A breakdown with two categories, one of them summed over two records.
C7_Witness ==
    /\ view.rendered
    /\ Len(rawData) >= 3
    /\ rawData[1].region = rawData[3].region
    /\ rawData[1].region # rawData[2].region
    /\ \A i \in 1..3 : rawData[i][activeMetric] > 0
    /\ Len(view.stats["region"].data) = 2

\* C8: when a breakdown's total is 0, the share shown for every entry and
\* its bar width are 0 (no division by the zero total is evaluated).
C8_ZeroTotalZeroShare ==
    view.rendered =>
        \A f \in GroupFields :
            view.stats[f].total = 0 =>
                \A i \in 1..Len(view.tables[f]) :
                    /\ view.tables[f][i].pct = 0
                    /\ view.tables[f][i].width[1] = 0

\* A breakdown with entries whose values are all 0.
C8_Witness ==
    /\ view.rendered
    /\ view.stats["region"].total = 0
    /\ Len(view.tables["region"]) >= 2

\* The planned series the specification pairs with each selectable metric.
PairedPlanned ==
    [emails_sent      |-> "planned_sent",
     replies          |-> "planned_replies",
     positive_replies |-> "planned_mqls",
     meetings_booked  |-> "planned_sqls",
     bounces          |-> "planned_bounces"]

\* C15: for each of the five selectable metrics getChartConfig pairs the
\* actual series with the planned series of the fixed lookup, and
\* config.actual is the active metric.
C15_ConfigPairsPlanned ==
    view.rendered =>
        /\ view.config.actual = activeMetric
        /\ view.config.planned = PairedPlanned[activeMetric]
        /\ \A m \in SelectableMetrics :
              getChartConfig(m) = [actual |-> m, planned |-> PairedPlanned[m]]

\* A click has selected replies and the chart plots it against
\* planned_replies.
C15_Witness ==
    /\ view.rendered
    /\ activeMetric = "replies"
    /\ view.config = [actual |-> "replies", planned |-> "planned_replies"]

\* C16: for a non-empty day series chartMax is 1.1 times the maximum over
\* the days of the larger of the active metric and the planned metric that
\* getChartConfig pairs with it (chartMax is kept in tenths).
C16_CeilingOverPlottedSeries ==
    (view.rendered /\ Len(view.chartData) > 0) =>
        \E k \in 1..Len(view.chartData) :
            LET larger(d) == IF d[activeMetric] >= d[view.config.planned]
                             THEN d[activeMetric] ELSE d[view.config.planned]
            IN  /\ view.chartMax = 11 * larger(view.chartData[k])
                /\ \A n \in 1..Len(view.chartData) :
                      larger(view.chartData[n]) <= larger(view.chartData[k])

\* The position at which category name of field is first seen in rows.
FirstSeen(rows, field, name) ==
    CHOOSE n \in 1..Len(rows) :
        /\ rows[n][field] = name
        /\ \A k \in 1..(n - 1) : rows[k][field] # name

\* C19: the entries getGroupedData returns are ordered by summed value
\* descending, and categories with equal sums stand in the order in which
\* the record list first shows them.
C19_DescendingFirstSeenTies ==
    view.rendered =>
        \A f \in GroupFields :
            LET data == view.stats[f].data
            IN  \A a, b \in 1..Len(data) :
                    a < b =>
                        /\ data[a].value >= data[b].value
                        /\ data[a].value = data[b].value =>
                              FirstSeen(rawData, f, data[a].name) <
                                  FirstSeen(rawData, f, data[b].name)

\* Three regions in the list; the first two seen, UK before US, tie on a
\* non-zero sum and stand in that order behind a larger one seen last.
C19_Witness ==
    /\ view.rendered
    /\ Len(rawData) = 3
    /\ Len(view.stats["region"].data) = 3
    /\ view.stats["region"].data[1].name = rawData[3].region
    /\ view.stats["region"].data[2].name = rawData[1].region
    /\ view.stats["region"].data[2].value = view.stats["region"].data[3].value
    /\ view.stats["region"].data[2].value > 0
    /\ view.stats["region"].data[1].value > view.stats["region"].data[2].value

\* C20: the totals of the four breakdowns are one number, the grand total
\* of the active metric in totals.
C20_BreakdownTotalIsGrandTotal ==
    view.rendered =>
        \A f \in GroupFields :
            /\ activeMetric \in DOMAIN view.totals
            /\ view.stats[f].total = view.totals[activeMetric]

\* C29: the response-time breakdown has exactly five entries, one per
\* bucket in the fixed domain order, buckets without records included at
\* value 0, and its values sum to the grand total of the active metric
\* over the record list.
C29_FiveBucketsInDomainOrder ==
    view.rendered =>
        LET data == view.ttlConfig.data
        IN  /\ [k \in 1..Len(data) |-> data[k].name] =
                  <<"< 5 mins", "5-30 mins", "30-60 mins", "1-4 hours",
                    "> 24 hours">>
            /\ \A k \in 1..Len(data) : data[k].value >= 0
            /\ SumField(data, "value") = SumField(rawData, activeMetric)
            /\ SumField(data, "value") =
                  getGroupedData(rawData, activeMetric, "ttl_bucket").total

\* Records of two buckets, given later bucket first, with non-zero values:
\* the two buckets carry them and the other three stand at 0.
C29_Witness ==
    /\ view.rendered
    /\ Len(rawData) >= 2
    /\ rawData[1].ttl_bucket = "> 24 hours"
    /\ rawData[2].ttl_bucket = "< 5 mins"
    /\ view.ttlConfig.data[1].value > 0
    /\ view.ttlConfig.data[5].value > 0
    /\ view.ttlConfig.data[2].value = 0
    /\ view.ttlConfig.data[4].value = 0

(***************************************************************************)
(* The generator run as a state machine: the environment supplies the      *)
(* time zone and the sequence Math.random() follows, every step is one     *)
(* pass of the outer loop, and the loop ends by returning the rows.        *)
(***************************************************************************)
\* Sequences Math.random() follows: always the smallest value, always the
\* largest, and a cycle of five values, which against the eight draws of a
\* row gives every field each of the five in turn.
Streams ==
    {<<0>>, <<LastDraw>>,
     <<0, RandDen \div 4, RandDen \div 2, (3 * RandDen) \div 4, RandDen - 1>>}

GenInit ==
    /\ tz \in TimeZones
    /\ randomSeq \in Streams
    /\ offset = WindowDays
    /\ genRows = <<>>
    /\ generatorRuns = 1
    /\ pc = "loop"
    /\ currentDate = anchorDate
    /\ draws = ZeroDraws
    /\ row = NoRow
    /\ rawData = <<>>
    /\ activeMetric = "meetings_booked"
    /\ view = NoView
    /\ isLoading = TRUE
    /\ timerPending = FALSE
    /\ designMode = "ruadhan"
    /\ variant = "part_000"
    /\ mode = NotDeclared
    /\ design = NotDeclared

\* The body of the outer loop for i = offset, and i--.
DayPass ==
    /\ pc = "loop"
    /\ offset >= 0
    /\ currentDate' = setDate(anchorDate, offset)
    /\ genRows' = genRows \o generateDay(tz, setDate(anchorDate, offset),
                                         randomSeq, Len(genRows))
    /\ offset' = offset - 1
    /\ UNCHANGED <<tz, rawData, activeMetric, view, draws, row, pc>>
    /\ UNCHANGED <<randomSeq, generatorRuns, uiVars>>

\* i >= 0 fails: return rows.
ReturnRows ==
    /\ pc = "loop"
    /\ offset < 0
    /\ pc' = "returned"
    /\ UNCHANGED <<tz, rawData, activeMetric, view, currentDate, draws, row>>
    /\ UNCHANGED <<genVars, uiVars>>

GenNext == DayPass \/ ReturnRows

SpecGen == GenInit /\ [][GenNext]_vars

(***************************************************************************)
(* Properties of the generator run.                                        *)
(***************************************************************************)
\* A pass of the outer loop has run; currentDate is its day.
PassDone == pc = "loop" /\ offset < WindowDays

\* The rows pushed for the local day ld: those that carry its label (the
\* window is shorter than a year, so a label names one local day).
RowsOfDay(ld) ==
    SelectSeq(genRows, LAMBDA r : r.displayDate = toLocaleDateString(ld))

\* C11: for every day of the window the seasonality multiplier applied to
\* the day's records is 0.2 when the day's month is June or July (index 5
\* or 6) and the table's value for the month otherwise; the multiplier is
\* read off the records: planned_sent is floor(250 * multiplier) and
\* emails_sent lies between floor(250 * multiplier * 0.85) and
\* floor(250 * multiplier * 1.15).
C11_SlumpMonthsAtOneFifth ==
    PassDone =>
        LET month == getMonth(currentDate)
            mult  == IF month \in {5, 6} THEN 2 ELSE SEASONALITY[month]
            today == RowsOfDay(currentDate)
        IN  /\ Len(today) > 0
            /\ \A k \in 1..Len(today) :
                  /\ today[k].planned_sent = (250 * mult) \div 10
                  /\ today[k].emails_sent >= (250 * mult * 85) \div 1000
                  /\ today[k].emails_sent <= (250 * mult * 115) \div 1000

\* The pass of 31 July has run (a slump day), after passes of June days and
\* before those of August.
C11_Witness ==
    /\ PassDone
    /\ CivilFromDays(currentDate) = <<2024, 7, 31>>
    /\ \A k \in 1..Len(RowsOfDay(currentDate)) :
          RowsOfDay(currentDate)[k].planned_sent = 50

\* C12: for every day of the window the returned list holds exactly 2
\* records dated that day if it is a Saturday or a Sunday, and exactly 12
\* otherwise.
C12_SegmentsPerDate ==
    pc = "returned" =>
        \A i \in 0..WindowDays :
            LET day == setDate(anchorDate, i)
            IN  Len(RowsOn(genRows, CivilFromDays(day))) =
                    (IF getDay(day) \in {0, 6} THEN 2 ELSE 12)

\* C13: the returned list is non-empty and its records cover exactly 121
\* distinct dates: 2024-10-25 and each of the 120 days before it.
C13_WindowDatesDistinct ==
    pc = "returned" =>
        /\ genRows # <<>>
        /\ Cardinality(DatesOf(genRows)) = 121
        /\ DatesOf(genRows) =
              {CivilFromDays(DaysFromCivil(2024, 10, 25) - i) : i \in 0..120}

\* C14: the generator run over the one-day window of a weekend day with
\* every draw 0 returns exactly 2 records, each with the first element of
\* every categorical domain and the lower-bound numbers of the formulas;
\* these are the rows the pass of that day pushes.
C14_WeekendZeroDraws ==
    (PassDone /\ isWeekend(currentDate) /\ randomSeq = <<0>>) =>
        LET out    == generateDays(tz, currentDate, 0, randomSeq)
            season == seasonFactor(getMonth(currentDate))
        IN  /\ Len(out) = 2
            /\ RowsOfDay(currentDate) = out
            /\ \A k \in 1..Len(out) :
                  /\ out[k].region = "US"
                  /\ out[k].persona = "Talent Acquisition"
                  /\ out[k].inbox_provider = "Google Workspace"
                  /\ out[k].campaign_name = "Campaign A"
                  /\ out[k].ttl_bucket = "< 5 mins"
                  /\ out[k].revenue_range = "< $1M"
                  /\ out[k].emails_sent = (250 * season * 85) \div 1000
                  /\ out[k].replies = (out[k].emails_sent * 18) \div 1000
                  /\ out[k].positive_replies = (out[k].replies * 35) \div 100
                  /\ out[k].meetings_booked =
                        (out[k].positive_replies * 60) \div 100
                  /\ out[k].bounces = (out[k].emails_sent * 12) \div 1000
                  /\ out[k].estimated_pipeline_value =
                        out[k].meetings_booked * 15000

\* The pass of Saturday 19 October has run with every draw 0: 297 emails,
\* 5 replies, 1 positive reply and no meeting in each of its two rows.
C14_Witness ==
    /\ PassDone
    /\ randomSeq = <<0>>
    /\ CivilFromDays(currentDate) = <<2024, 10, 19>>
    /\ getDay(currentDate) = 6
    /\ Len(RowsOfDay(currentDate)) = 2
    /\ RowsOfDay(currentDate)[2].emails_sent = 297
    /\ RowsOfDay(currentDate)[2].positive_replies = 1
    /\ RowsOfDay(currentDate)[2].estimated_pipeline_value = 0

\* C21: the list the generator builds is ordered by date ascending: no
\* record is dated before the record that precedes it (the calendar order
\* being transitive, this is the same for any two positions p < q); it
\* holds of the list returned and of the list after every pass.
C21_RowsAscendingByDate ==
    \A p \in 1..(Len(genRows) - 1) :
        ~DateBefore(genRows[p + 1].date, genRows[p].date)

\* The returned list of a run in Etc/GMT+12, where every row is dated the
\* day after its local day: it runs from 2024-06-28 to 2024-10-26, across
\* month ends, and its last row, shown as Oct 25, is dated the 26th.
C21_Witness ==
    /\ pc = "returned"
    /\ tz = "Etc/GMT+12"
    /\ genRows[1].date = <<2024, 6, 28>>
    /\ genRows[Len(genRows)].date = <<2024, 10, 26>>
    /\ genRows[Len(genRows)].displayDate = <<"Oct", 25>>
    /\ \E p \in 1..(Len(genRows) - 1) :
          /\ genRows[p].date = <<2024, 9, 30>>
          /\ genRows[p + 1].date = <<2024, 10, 1>>

(***************************************************************************)
(* The dashboard as a state machine: SalesDashboard is constructed, its    *)
(* mount effect schedules the load, the delayed callback generates and     *)
(* stores the data, and clicks select a metric or a design.  JavaScript    *)
(* runs every callback to completion, so each is one step.                 *)
(***************************************************************************)
\* The designs of the toggle.
DesignModes == {"ruadhan", "best", "joinrs"}

\* Mutant of callbackData: the list stored one pass of the outer loop short
\* of the end.
callbackData_BeforeLastPass(zone, seq) ==
    generateDays(zone, setDate(anchorDate, 1), WindowDays - 1, seq)

\* const data = generateRawCSVData(); setRawData(data): the list the
\* callback of the timer stores.
callbackData(zone, seq) == generateRawCSVData(zone, seq)

\* Mutant of Init: the dashboard opens on emails_sent.
Init_EmailsSentFirst ==
    /\ tz \in TimeZones
    /\ randomSeq \in Streams
    /\ activeMetric = "emails_sent"
    /\ rawData = <<>>
    /\ isLoading = TRUE
    /\ designMode = "ruadhan"
    /\ variant = "part_000"
    /\ mode = NotDeclared
    /\ design = NotDeclared
    /\ timerPending = FALSE
    /\ view = NoView
    /\ pc = "constructed"
    /\ currentDate = anchorDate
    /\ draws = ZeroDraws
    /\ row = NoRow
    /\ offset = WindowDays
    /\ genRows = <<>>
    /\ generatorRuns = 0

\* The useState initial values, before the first render.
Init ==
    /\ tz \in TimeZones
    /\ randomSeq \in Streams
    /\ activeMetric = "meetings_booked"
    /\ rawData = <<>>
    /\ isLoading = TRUE
    /\ designMode = "ruadhan"
    /\ variant = "part_000"
    /\ mode = NotDeclared
    /\ design = NotDeclared
    /\ timerPending = FALSE
    /\ view = NoView
    /\ pc = "constructed"
    /\ currentDate = anchorDate
    /\ draws = ZeroDraws
    /\ row = NoRow
    /\ offset = WindowDays
    /\ genRows = <<>>
    /\ generatorRuns = 0

\* The first render of SalesDashboard, from the useState initial values:
\* the spinner is shown and the mount effect is left pending.
FirstRender ==
    /\ pc = "constructed"
    /\ view' = Render(view, rawData, activeMetric, TRUE, TRUE)
    /\ pc' = "effectPending"
    /\ UNCHANGED <<tz, rawData, activeMetric, currentDate, draws, row>>
    /\ UNCHANGED <<genVars, uiVars>>

\* Mutant of MountEffect: the effect schedules no timer.
MountEffect_NoTimer ==
    /\ pc = "effectPending"
    /\ isLoading' = TRUE
    /\ timerPending' = FALSE
    /\ pc' = "loading"
    /\ UNCHANGED <<tz, rawData, activeMetric, view, currentDate, draws, row>>
    /\ UNCHANGED <<genVars, themeVars>>

\* The mount effect, run after the first render has been committed:
\* setIsLoading(true), which is the value isLoading has, and
\* setTimeout(callback, 600).
MountEffect ==
    /\ pc = "effectPending"
    /\ isLoading' = TRUE
    /\ timerPending' = TRUE
    /\ pc' = "loading"
    /\ UNCHANGED <<tz, rawData, activeMetric, view, currentDate, draws, row>>
    /\ UNCHANGED <<genVars, themeVars>>

\* Mutant of TimerFires: the timer stays scheduled, as with setInterval.
TimerFires_Repeating ==
    /\ timerPending
    /\ timerPending' = TRUE
    /\ generatorRuns' = generatorRuns + 1
    /\ genRows' = callbackData(tz, randomSeq)
    /\ offset' = 0 - 1
    /\ pc' = "queued"
    /\ UNCHANGED <<tz, rawData, activeMetric, view, currentDate, draws, row>>
    /\ UNCHANGED <<randomSeq, isLoading, themeVars>>

\* The callback of the timer: const data = generateRawCSVData(),
\* setRawData(data), setIsLoading(false).  The two updates are queued (the
\* list waits in genRows); the state the screen shows changes in the
\* render that follows.
TimerFires ==
    /\ timerPending
    /\ timerPending' = FALSE
    /\ generatorRuns' = generatorRuns + 1
    /\ genRows' = callbackData(tz, randomSeq)
    /\ offset' = 0 - 1
    /\ pc' = "queued"
    /\ UNCHANGED <<tz, rawData, activeMetric, view, currentDate, draws, row>>
    /\ UNCHANGED <<randomSeq, isLoading, themeVars>>

\* The render of the updates the callback queued: rawData and isLoading
\* change together, and the hooks that depend on rawData run again.
RenderLoaded ==
    /\ pc = "queued"
    /\ rawData' = genRows
    /\ isLoading' = FALSE
    /\ view' = Render(view, rawData', activeMetric, TRUE, FALSE)
    /\ pc' = "rendered"
    /\ UNCHANGED <<tz, activeMetric, currentDate, draws, row>>
    /\ UNCHANGED <<genVars, timerPending, themeVars>>

\* The render a click on the theme switcher causes; changed tells whether
\* the click selected another value.  The switcher is on the screen from
\* the first render on, spinner or not.  The theme is read by the styling
\* alone: no hook that aggregates depends on it.
\*   - A click on another value before the mount effect has run makes
\*     React run the pending effect ahead of the render.
\*   - A click while the callback's updates wait (pc = "queued") is
\*     rendered at once, and which updates that render takes is React's
\*     choice, not this repository's: a React that renders the lane of the
\*     click alone shows the new theme and leaves the updates waiting; a
\*     React that renders the default lane with the sync lane commits the
\*     list and the flag in the same render.
ThemeRender(changed) ==
    /\ \/ /\ pc = "effectPending" /\ changed
          /\ timerPending' = TRUE
          /\ pc' = "loading"
          /\ view' = Render(view, rawData, activeMetric, FALSE, FALSE)
          /\ UNCHANGED <<rawData, isLoading>>
       \/ /\ ~(pc = "effectPending" /\ changed)
          /\ view' = Render(view, rawData, activeMetric, FALSE, FALSE)
          /\ UNCHANGED <<rawData, isLoading, timerPending, pc>>
       \/ /\ pc = "queued"
          /\ rawData' = genRows
          /\ isLoading' = FALSE
          /\ view' = Render(view, rawData', activeMetric, TRUE, FALSE)
          /\ pc' = "rendered"
          /\ UNCHANGED timerPending
    /\ UNCHANGED <<tz, activeMetric, currentDate, draws, row>>
    /\ UNCHANGED genVars

\* Mutant of SetDesignMode: the click also clears the loading flag.
SetDesignMode_EndsLoading(d) ==
    /\ variant = "part_000"
    /\ pc \in {"effectPending", "loading", "queued", "rendered"}
    /\ designMode' = d
    /\ isLoading' = FALSE
    /\ \/ /\ pc = "effectPending" /\ d # designMode
          /\ timerPending' = TRUE
          /\ pc' = "loading"
          /\ view' = Render(view, rawData, activeMetric, FALSE, FALSE)
          /\ UNCHANGED rawData
       \/ /\ ~(pc = "effectPending" /\ d # designMode)
          /\ view' = Render(view, rawData, activeMetric, FALSE, FALSE)
          /\ UNCHANGED <<rawData, timerPending, pc>>
       \/ /\ pc = "queued"
          /\ rawData' = genRows
          /\ view' = Render(view, rawData', activeMetric, TRUE, FALSE)
          /\ pc' = "rendered"
          /\ UNCHANGED timerPending
    /\ UNCHANGED <<tz, activeMetric, currentDate, draws, row>>
    /\ UNCHANGED <<genVars, variant, mode, design>>

\* Mutant of SetDesignMode: the click also selects meetings_booked again.
SetDesignMode_ResetsMetric(d) ==
    /\ variant = "part_000"
    /\ pc \in {"effectPending", "loading", "queued", "rendered"}
    /\ designMode' = d
    /\ activeMetric' = "meetings_booked"
    /\ \/ /\ pc = "effectPending" /\ d # designMode
          /\ timerPending' = TRUE
          /\ pc' = "loading"
          /\ view' = Render(view, rawData, "meetings_booked", FALSE,
                            activeMetric # "meetings_booked")
          /\ UNCHANGED <<rawData, isLoading>>
       \/ /\ ~(pc = "effectPending" /\ d # designMode)
          /\ view' = Render(view, rawData, "meetings_booked", FALSE,
                            activeMetric # "meetings_booked")
          /\ UNCHANGED <<rawData, isLoading, timerPending, pc>>
       \/ /\ pc = "queued"
          /\ rawData' = genRows
          /\ isLoading' = FALSE
          /\ view' = Render(view, rawData', "meetings_booked", TRUE,
                            activeMetric # "meetings_booked")
          /\ pc' = "rendered"
          /\ UNCHANGED timerPending
    /\ UNCHANGED <<tz, currentDate, draws, row>>
    /\ UNCHANGED <<genVars, variant, mode, design>>

\* onClick={() => setDesignMode(d)} of the design toggle of part_000 and
\* the render it causes.
SetDesignMode(d) ==
    /\ variant = "part_000"
    /\ pc \in {"effectPending", "loading", "queued", "rendered"}
    /\ designMode' = d
    /\ UNCHANGED <<variant, mode, design>>
    /\ ThemeRender(d # designMode)

Next ==
    \/ FirstRender
    \/ MountEffect
    \/ TimerFires
    \/ RenderLoaded
    \/ \E m \in SelectableMetrics : SetActiveMetric(m)
    \/ \E d \in DesignModes : SetDesignMode(d)

Spec == Init /\ [][Next]_vars

\* The steps of TimerFires, told by what only that action does: the
\* scheduled timer is cleared.  It is enabled exactly when TimerFires is
\* (timerPending), without the generated list being built to decide it.
CallbackRuns == timerPending /\ timerPending' = FALSE

\* The steps that render the updates the callback queued, told by what
\* only they do: RenderLoaded, and the render of a theme click that takes
\* the queued updates with it.  It is enabled exactly when RenderLoaded is.
LoadRenders == pc = "queued" /\ pc' = "rendered"

\* Every step of the dashboard that clears the timer is the timer callback,
\* and every step that renders the queued updates does what RenderLoaded
\* does to the list, the flag and the aggregated views.
HelperStepsAreActions ==
    /\ [][CallbackRuns => TimerFires]_vars
    /\ [][LoadRenders =>
            /\ rawData' = genRows
            /\ isLoading' = FALSE
            /\ view' = Render(view, genRows, activeMetric, TRUE, FALSE)]_vars

\* The dashboard with its scheduling: React renders a constructed
\* component, runs its pending effect and renders queued updates, and the
\* event loop runs a scheduled timer callback; clicks may or may not
\* happen.  The fairness of the callback and of the render of its updates
\* is stated on CallbackRuns and LoadRenders, whose steps within Next are
\* the TimerFires steps and the renders of the queued updates.
SpecFair ==
    /\ Spec
    /\ WF_vars(FirstRender)
    /\ WF_vars(MountEffect)
    /\ WF_timerPending(CallbackRuns)
    /\ WF_pc(LoadRenders)

(***************************************************************************)
(* The dashboard in each of its variants.  The files of the repository     *)
(* hold the same component with three theme switchers: a two-way design    *)
(* toggle (page.tsx), a three-way design toggle (part_000), and a light or *)
(* dark mode with a design system (part_001).  The state, the mount        *)
(* effect, the callback and the loading gate are the same in all three.    *)
(***************************************************************************)
Variants == {"page.tsx", "part_000", "part_001"}

\* ThemeMode and DesignSystem of part_001.
ThemeModes == {"light", "dark"}

DesignSystems == {"enterprise", "modern", "minimal"}

\* The environments the variants are run in: local noon on its own UTC day
\* and on the next one, Math.random() following the cycle of five values.
ThemedZones == {"UTC", "Etc/GMT+12"}

ThemedStreams ==
    {<<0, RandDen \div 4, RandDen \div 2, (3 * RandDen) \div 4, RandDen - 1>>}

\* The useState initial values of the variant, before the first render.
ThemedInit ==
    /\ variant \in Variants
    /\ designMode = IF variant = "part_001" THEN NotDeclared ELSE "ruadhan"
    /\ mode = IF variant = "part_001" THEN "light" ELSE NotDeclared
    /\ design = IF variant = "part_001" THEN "enterprise" ELSE NotDeclared
    /\ tz \in ThemedZones
    /\ randomSeq \in ThemedStreams
    /\ activeMetric = "meetings_booked"
    /\ rawData = <<>>
    /\ isLoading = TRUE
    /\ timerPending = FALSE
    /\ view = NoView
    /\ pc = "constructed"
    /\ currentDate = anchorDate
    /\ draws = ZeroDraws
    /\ row = NoRow
    /\ offset = WindowDays
    /\ genRows = <<>>
    /\ generatorRuns = 0

\* onClick={() => setDesignMode(prev => prev === 'ruadhan' ? 'best' :
\* 'ruadhan')} of the design toggle of page.tsx and the render it causes.
ToggleDesignMode ==
    /\ variant = "page.tsx"
    /\ pc \in {"effectPending", "loading", "queued", "rendered"}
    /\ designMode' = IF designMode = "ruadhan" THEN "best" ELSE "ruadhan"
    /\ UNCHANGED <<variant, mode, design>>
    /\ ThemeRender(TRUE)

\* onClick={() => setMode(m)} of the theme switcher of part_001 and the
\* render it causes.
SetMode(m) ==
    /\ variant = "part_001"
    /\ pc \in {"effectPending", "loading", "queued", "rendered"}
    /\ mode' = m
    /\ UNCHANGED <<designMode, variant, design>>
    /\ ThemeRender(m # mode)

\* onClick={() => setDesign(d)} of the theme switcher of part_001 and the
\* render it causes.
SetDesign(d) ==
    /\ variant = "part_001"
    /\ pc \in {"effectPending", "loading", "queued", "rendered"}
    /\ design' = d
    /\ UNCHANGED <<designMode, variant, mode>>
    /\ ThemeRender(d # design)

ThemedNext ==
    \/ FirstRender
    \/ MountEffect
    \/ TimerFires
    \/ RenderLoaded
    \/ \E m \in SelectableMetrics : SetActiveMetric(m)
    \/ \E d \in DesignModes : SetDesignMode(d)
    \/ ToggleDesignMode
    \/ \E m \in ThemeModes : SetMode(m)
    \/ \E d \in DesignSystems : SetDesign(d)

SpecThemed == ThemedInit /\ [][ThemedNext]_vars

(***************************************************************************)
(* Properties of the dashboard.                                            *)
(***************************************************************************)
\* C17: in every reachable state the record list is empty or the complete
\* output of one finished generator run, and the day series the
\* aggregation holds was computed from that list.
C17_EmptyOrCompleteRun ==
    /\ rawData = <<>> \/ rawData = generateRawCSVData(tz, randomSeq)
    /\ view.rendered => view.chartData = ChartData(rawData)

\* The callback has stored the 1112 rows of a run and a click has made the
\* breakdowns aggregate them again.
C17_Witness ==
    /\ ~isLoading
    /\ Len(rawData) = 1112
    /\ activeMetric = "replies"
    /\ view.stats["region"].total > 0

\* C18: loading ends only through the scheduled callback: while the
\* callback is pending isLoading is true and the record list is empty;
\* isLoading turns false only in the render of the updates the callback
\* queued, which stores its list; updates are queued by the callback only;
\* every other step leaves isLoading and the record list as they are; and
\* the timer is scheduled by the mount effect only, which runs once.
C18_OnlyCallbackEndsLoading ==
    /\ [](timerPending => (isLoading /\ rawData = <<>>))
    /\ [][(isLoading /\ ~isLoading') =>
              (pc = "queued" /\ generatorRuns = 1 /\ rawData' = genRows
                 /\ rawData' # <<>>)]_vars
    /\ [][(pc # "queued" /\ pc' = "queued") =>
              (timerPending /\ ~timerPending')]_vars
    /\ [][(pc # "queued") =>
              (isLoading' = isLoading /\ rawData' = rawData)]_vars
    /\ [][(~timerPending /\ timerPending') =>
              (pc = "effectPending" /\ pc' = "loading")]_vars
    /\ [][pc' # "effectPending" \/ pc = "constructed"
              \/ pc = "effectPending"]_vars

\* The callback is still pending after a click on the design toggle: the
\* dashboard is loading and the record list is empty.
C18_Witness ==
    /\ timerPending
    /\ designMode = "joinrs"
    /\ view.rendered
    /\ isLoading
    /\ rawData = <<>>

\* C22: generation runs exactly once per load: the generator is never
\* called a second time, and once the callback has stored the record list
\* (loading has ended) no step changes the list or calls the generator.
C22_GeneratedOnce ==
    /\ [](generatorRuns <= 1)
    /\ [](~isLoading => generatorRuns = 1)
    /\ [][~isLoading =>
              (rawData' = rawData /\ generatorRuns' = generatorRuns)]_vars

\* After the load a metric and a design have been selected; the list is
\* the one the single run stored.
C22_Witness ==
    /\ ~isLoading
    /\ generatorRuns = 1
    /\ activeMetric = "bounces"
    /\ designMode = "best"
    /\ rawData = genRows
    /\ rawData # <<>>

\* C23: after any sequence of load, metric and design actions every derived
\* view the hooks hold is the one computed from the current record list and
\* the current active metric: the day series, the chart ceiling and
\* configuration, the totals, the four breakdowns with their tables and the
\* response-time breakdown.
C23_ViewsNeverStale ==
    view.rendered =>
        /\ view.chartData = ChartData(rawData)
        /\ view.chartMax = chartMax(view.chartData, activeMetric)
        /\ view.config = getChartConfig(activeMetric)
        /\ view.totals = Totals(rawData)
        /\ view.stats = Breakdowns(rawData, activeMetric)
        /\ view.tables = Tables(Breakdowns(rawData, activeMetric))
        /\ view.ttlConfig = ttlConfig(rawData, activeMetric)

\* The load has finished, then a design and another metric were selected:
\* the breakdowns hold the sums of that metric over the generated list.
C23_Witness ==
    /\ ~isLoading
    /\ rawData # <<>>
    /\ designMode = "joinrs"
    /\ activeMetric = "emails_sent"
    /\ view.stats["region"].total = view.totals.emails_sent
    /\ view.stats["region"].total > 0

\* C24: the active metric is always one of emails_sent, replies,
\* positive_replies, meetings_booked, bounces; it is meetings_booked
\* initially, and it changes only in a click on a KPI card (offered once
\* loading has ended), which sets it to the card's metric and leaves the
\* record list, the loading flag and the design alone.
C24_ActiveMetricOneOfFive ==
    /\ activeMetric = "meetings_booked"
    /\ [](activeMetric \in {"emails_sent", "replies", "positive_replies",
                             "meetings_booked", "bounces"})
    /\ [][activeMetric' # activeMetric =>
              /\ ~isLoading
              /\ view'.config.actual = activeMetric'
              /\ rawData' = rawData
              /\ isLoading' = isLoading
              /\ designMode' = designMode]_vars

\* A click has selected positive_replies and the chart follows it.
C24_Witness ==
    /\ ~isLoading
    /\ activeMetric = "positive_replies"
    /\ view.config.actual = "positive_replies"

\* C26: when isLoading is false the record list is non-empty, so the KPI
\* cards, chart and tables are rendered only when each of the ten grand
\* totals is a defined number.
C26_LoadedMeansData ==
    ~isLoading =>
        /\ rawData # <<>>
        /\ view.rendered
        /\ \A f \in MetricFields :
              /\ f \in DOMAIN view.totals
              /\ view.totals[f] \in Nat

\* The state the callback leaves: loading over, the list stored, bounces
\* counted, nothing clicked yet.
C26_Witness ==
    /\ ~isLoading
    /\ Len(rawData) > 0
    /\ view.totals.bounces > 0
    /\ activeMetric = "meetings_booked"
    /\ designMode = "ruadhan"

\* C27: with the first render, the mount effect, the scheduled callback and
\* the render of its updates run when they are due, the dashboard
\* eventually leaves the loading state and never returns to it, whatever
\* clicks occur.
C27_EventuallyLoadedForGood == <>[](~isLoading)

\* Loading is over and clicks have gone on: a metric and a design selected.
C27_Witness ==
    /\ ~isLoading
    /\ ~timerPending
    /\ activeMetric = "replies"
    /\ designMode = "best"

\* A step that changes the theme selection of the variant.
ThemeChanged ==
    designMode' # designMode \/ mode' # mode \/ design' # design

\* The step leaves every aggregated view as it is.
ViewsKept ==
    /\ view'.chartData = view.chartData
    /\ view'.totals = view.totals
    /\ view'.stats = view.stats
    /\ view'.tables = view.tables
    /\ view'.ttlConfig = view.ttlConfig
    /\ view'.chartMax = view.chartMax

\* C28 as stated: a change of the theme selection (mode, design or
\* designMode), before or after the load completes, leaves the record
\* list, the loading flag, the active metric and every aggregated view
\* unchanged.  It fails for a click that falls between the callback and
\* the render of its updates, when React renders those updates with the
\* click.
C28_ThemeChangeAltersNothing ==
    [][ThemeChanged =>
          /\ rawData' = rawData
          /\ isLoading' = isLoading
          /\ activeMetric' = activeMetric
          /\ ViewsKept]_vars

\* C28, amended: a change of the theme selection never changes the active
\* metric and never runs the generator; it leaves the record list, the
\* loading flag and every aggregated view unchanged whenever no update of
\* the callback waits to be rendered, that is before the callback has run
\* and after the load is on the screen; and when the callback's updates
\* wait, the step either leaves all of them unchanged too or renders
\* exactly those updates: the list the callback generated, the flag false,
\* the views of that list.
C28_ThemeChangeKeepsOrCommitsLoad ==
    [][ThemeChanged =>
          /\ activeMetric' = activeMetric
          /\ generatorRuns' = generatorRuns
          /\ genRows' = genRows
          /\ \/ /\ rawData' = rawData
                /\ isLoading' = isLoading
                /\ ViewsKept
             \/ /\ pc = "queued"
                /\ generatorRuns = 1
                /\ rawData' = genRows
                /\ isLoading' = FALSE
                /\ view' = Render(view, genRows, activeMetric, TRUE, FALSE)]_vars

\* In part_001 the mode and the design system have both been changed, the
\* list is loaded and the breakdowns show bounces over it.
C28_Witness ==
    /\ variant = "part_001"
    /\ mode = "dark"
    /\ design = "minimal"
    /\ ~isLoading
    /\ activeMetric = "bounces"
    /\ view.stats["campaign_name"].total > 0

\* C30: for the list generated over the fixed window the four planned
\* grand totals that the KPI trends divide by (planned_sent,
\* planned_replies, planned_mqls, planned_sqls) are strictly positive once
\* loading has finished.
C30_PlannedTotalsPositive ==
    ~isLoading =>
        \A f \in {"planned_sent", "planned_replies", "planned_mqls",
                  "planned_sqls"} :
            /\ f \in DOMAIN view.totals
            /\ view.totals[f] > 0

\* Loaded with Math.random() always at its smallest: the planned totals
\* narrow from sends to meetings and none is 0.
C30_Witness ==
    /\ ~isLoading
    /\ randomSeq = <<0>>
    /\ view.totals.planned_sqls >= 1
    /\ view.totals.planned_sqls < view.totals.planned_mqls
    /\ view.totals.planned_mqls < view.totals.planned_replies
    /\ view.totals.planned_replies < view.totals.planned_sent

====
